---- MODULE Spec2Model ----
(***************************************************************************)
(* A model of metalim/multibar: the Bar state machine (mutex-guarded       *)
(* fields, Add/SetValue/SetMax/SetDescription/Reset/Finish), the line      *)
(* renderer, and the MultiBar coordinator (NewBar64, updateMaxLabelLength, *)
(* render) as they are executed by several goroutines.                     *)
(*                                                                         *)
(* Every goroutine is a thread of the model.  A step of the model is one   *)
(* access to shared memory (or one mutex-protected section half): the      *)
(* coordinator's fields are plain memory without a lock, so their reads    *)
(* and writes interleave freely.                                           *)
(***************************************************************************)
EXTENDS Integers, Sequences, FiniteSets, TLC

\* ------------------------------------------------------------- constants

Undefined == -1
NumSpinners == 10
SpinnerRenderInterval == 100
BarWidth == 30
ZeroTime == 0
SecondMs == 1000
Int64Bits == 64

\* --------------------------------------------------------------- bounds

MaxBars == 2
InitBars == 1
MaxCalls == 2
MaxTicks == 1
TickMs == 100
AddsPerThread == 2
MaxFormatMax == 8
BigUnitBits == 54

\* The goroutines that call into the package concurrently
Threads == {1, 2}
BarIds == 1..MaxBars
NoThread == 0
NoPanic == "none"
NoBar == 0

\* Descriptions are sequences of code points; a code point is represented
\* by the number of bytes of its UTF-8 encoding.
DescEmpty == << >>
DescA == <<1>>
DescWide == <<3, 3>>
Descs == {DescEmpty, DescA, DescWide}
Working == <<1, 1, 1, 1, 1, 1, 1>>

NewMaxes == {0, 2}
NewDescs == {DescEmpty, DescA}
MaxArgs == {Undefined, -2}
AddArgs == {-1, 0, 2}
ValueArgs == {3}

\* --------------------------------------------------------- pure helpers

Abs(x) == IF x < 0 THEN -x ELSE x

\* Go's integer division truncates toward zero; the divisor is not zero.
GoDiv(a, b) ==
  IF (a >= 0) = (b > 0) THEN Abs(a) \div Abs(b) ELSE -(Abs(a) \div Abs(b))

GoMod(a, b) == a - b * GoDiv(a, b)

\* Two's complement wrap-around of x to a signed integer of `bits` bits.
\* The integers of this model are far below 2^30 in magnitude, so they wrap
\* only when bits <= 30.
Wrap(x, bits) ==
  IF bits > 30 THEN x
  ELSE LET m == 2 ^ (bits - 1)
           r == x % (2 * m)
       IN  IF r >= m THEN r - 2 * m ELSE r

\* The int64 product a * c, for an int64 a that is a multiple of 2^unitBits
\* and is given as its quotient by 2^unitBits; the result is given the same
\* way.  (a * 2^u * c) mod 2^64 = ((a * c) mod 2^(64-u)) * 2^u.
Mul64(a, c, unitBits) == Wrap(a * c, Int64Bits - unitBits)

RuneCountInString(s) == Len(s)

RECURSIVE ByteLen(_)
ByteLen(s) == IF s = << >> THEN 0 ELSE Head(s) + ByteLen(Tail(s))

\* Bar.label applied to a description
LabelOf(d) == IF d = DescEmpty THEN Working ELSE d

LabelLengthOf(d) == RuneCountInString(LabelOf(d))

DigitStr(d) ==
  CASE d = 0 -> "0" [] d = 1 -> "1" [] d = 2 -> "2" [] d = 3 -> "3"
    [] d = 4 -> "4" [] d = 5 -> "5" [] d = 6 -> "6" [] d = 7 -> "7"
    [] d = 8 -> "8" [] OTHER -> "9"

RECURSIVE NatStr(_)
NatStr(n) == IF n < 10 THEN DigitStr(n) ELSE NatStr(n \div 10) \o DigitStr(n % 10)

IntStr(n) == IF n < 0 THEN "-" \o NatStr(-n) ELSE NatStr(n)

RECURSIVE PadLeft(_, _)
PadLeft(s, w) == IF Len(s) >= w THEN s ELSE PadLeft(" " \o s, w)

\* fmt.Sprintf("%3d%%", percent)
FormatPercent(p) == PadLeft(IntStr(p), 3) \o "%"

\* The percent column of Bar.render.  "panic" stands for the run-time panic
\* of an integer division by zero.  value and maxVal count units of
\* 2^unitBits (a quotient of two such int64 values is the quotient of their
\* counts).
PercentStr(value, maxVal, finished, unitBits) ==
  IF finished /\ maxVal # Undefined THEN "100%"
  ELSE IF maxVal # Undefined
       THEN IF maxVal = 0 THEN "panic"
            ELSE FormatPercent(GoDiv(Mul64(value, 100, unitBits), maxVal))
       ELSE "    "

\* Bar.buildProgressBar: the cells of the bar as a record.  Kind "divide" is
\* the run-time panic of a division by zero, kind "repeat" the panic of
\* strings.Repeat called with a negative count.
BuildProgressBar(value, maxVal, width, isFinished, isError, unitBits) ==
  IF maxVal = Undefined
  THEN IF isFinished
       THEN [kind |-> "full", color |-> "green", full |-> width, part |-> 0,
             empty |-> 0]
       ELSE LET totalUnits == width * 8
                u0 == GoMod(value, totalUnits)
                u == IF u0 < 0 THEN u0 + totalUnits ELSE u0
            IN  [kind |-> "sweep", color |-> "none", full |-> u \div 8,
                 part |-> u % 8, empty |-> 0]
  ELSE IF maxVal = 0
  THEN [kind |-> "divide", color |-> "none", full |-> 0, part |-> 0, empty |-> 0]
  ELSE LET totalUnits == width * 8
           filledUnits == GoDiv(Mul64(value, totalUnits, unitBits), maxVal)
       IN  IF isFinished
           THEN [kind |-> "full", color |-> "green", full |-> width,
                 part |-> 0, empty |-> 0]
           ELSE LET fc0 == GoDiv(filledUnits, 8)
                    rem0 == GoMod(filledUnits, 8)
                    fullChars == IF fc0 >= width THEN width ELSE fc0
                    remainder == IF fc0 >= width THEN 0 ELSE rem0
                    extra == IF remainder > 0 /\ fullChars < width THEN 1 ELSE 0
                    ec0 == width - fullChars - extra
                    emptyChars == IF ec0 < 0 THEN 0 ELSE ec0
                IN  IF fullChars < 0
                    THEN [kind |-> "repeat", color |-> "none", full |-> 0,
                          part |-> 0, empty |-> 0]
                    ELSE [kind |-> "fill",
                          color |-> IF isError THEN "red" ELSE "none",
                          full |-> fullChars,
                          part |-> IF extra = 1 THEN remainder ELSE 0,
                          empty |-> emptyChars]

\* ---------------------------------------------------------------- state

VARIABLES
  bars,            \* MultiBar.bars: the registered bars, a sequence of bar ids
  spinnerIndex,    \* MultiBar.spinnerIndex
  lastRender,      \* MultiBar.lastRender (ZeroTime: never rendered)
  maxLabelLength,  \* MultiBar.maxLabelLength
  renderedLines,   \* MultiBar.renderedLines
  bar,             \* the Bar objects: id -> fields and the holder of Bar.mu
  nalloc,          \* how many Bar objects NewBar64 has constructed
  now,             \* the wall clock, in milliseconds
  th,              \* per goroutine: position in its call and the call's locals
  calls,           \* per goroutine: how many calls it has made so far
  budget,          \* the workload: calls allowed in all and per goroutine
  lines,           \* the sink: per bar, the line last written for it
  ups,             \* the sink: the argument of the last cursor-up sequence
  panicked         \* the panic that ended the process, NoPanic while it runs

vars == <<bars, spinnerIndex, lastRender, maxLabelLength, renderedLines, bar,
          nalloc, now, th, calls, budget, lines, ups, panicked>>

mbVars == <<bars, spinnerIndex, lastRender, maxLabelLength, renderedLines>>

NoSnap == [value |-> 0, max |-> 0, description |-> DescEmpty,
           finished |-> FALSE, startedAt |-> ZeroTime, updatedAt |-> ZeroTime,
           spinner |-> 0, maxLabelLength |-> 0, unitBits |-> 0]

NoLine == [written |-> FALSE]

\* A Bar as NewBar64 constructs it (value, updatedAt, finished: zero values).
\* unitBits is no field of the program: it tells in which unit, 2^unitBits,
\* the model counts the int64 fields value and max of this bar.
Bar(maxValue, description, at) ==
  [value |-> 0, max |-> maxValue, description |-> description,
   startedAt |-> at, updatedAt |-> ZeroTime, finished |-> FALSE,
   mu |-> NoThread, unitBits |-> 0]

NoObject == Bar(0, DescEmpty, ZeroTime)

\* A goroutine between two calls; ret tells how its last call returned.
Idle(ret) ==
  [pc |-> "idle", op |-> "none", b |-> NoBar, arg |-> 0, darg |-> DescEmpty,
   rng |-> << >>, idx |-> 0, tmp |-> 0, snap |-> NoSnap, tnow |-> ZeroTime,
   w |-> 0, due |-> FALSE, all |-> << >>, ai |-> 0, ret |-> ret]

\* The goroutine enters call `op` on bar b.
Enter(t, op, b, pc) ==
  [Idle("none") EXCEPT !.pc = pc, !.op = op, !.b = b]

RECURSIVE SumOver(_, _)
SumOver(f, S) ==
  IF S = {} THEN 0
  ELSE LET x == CHOOSE y \in S : TRUE IN f[x] + SumOver(f, S \ {x})

TotalCalls == SumOver(calls, Threads)

CanCall(t) ==
  /\ panicked = NoPanic
  /\ th[t].pc = "idle"
  /\ TotalCalls < budget.total
  /\ calls[t] < budget.each

At(t, pc) == panicked = NoPanic /\ th[t].pc = pc

Registered == {bars[i] : i \in 1..Len(bars)}

\* updateMaxLabelLength run alone over the bars bs with descriptions d
RECURSIVE MaxLabelOver(_, _)
MaxLabelOver(bs, d) ==
  IF bs = << >> THEN 0
  ELSE LET rest == MaxLabelOver(Tail(bs), d)
           l == LabelLengthOf(d[Head(bs)])
       IN  IF l > rest THEN l ELSE rest

\* A Bar without the mutex: Lock never waits.
CanLockNoMutex(b) == TRUE

\* sync.Mutex: Lock returns only when no goroutine holds the mutex.
CanLock(b) == bar[b].mu = NoThread

\* A read of the slice header m.bars by goroutine t.  The header is three
\* words written without synchronisation by NewBar64: a read that races with
\* that store may see a torn header (a length the array read does not have),
\* which ends in a fault.
BarsStoreRacing(t) == \E u \in Threads \ {t} : th[u].pc = "n_store"

ReadBars(t) ==
  {[ok |-> TRUE, v |-> bars]} \cup
  (IF BarsStoreRacing(t) THEN {[ok |-> FALSE, v |-> << >>]} ELSE {})

\* ----------------------------------------------------------------- Init

\* New and k NewBar64 calls made by one goroutine before any other runs,
\* after which the k Bar objects are o[1], ..., o[k].
InitObjects(k, o) ==
  /\ bars = [i \in 1..k |-> i]
  /\ bar = [i \in BarIds |-> IF i <= k THEN o[i] ELSE NoObject]
  /\ nalloc = k
  /\ maxLabelLength =
       MaxLabelOver([i \in 1..k |-> i], [i \in BarIds |-> o[i].description])
  /\ spinnerIndex = 0
  /\ lastRender = ZeroTime
  /\ renderedLines = 0
  /\ now = TickMs
  /\ lines = [i \in BarIds |-> NoLine]
  /\ ups = 0
  /\ panicked = NoPanic
  /\ calls = [t \in Threads |-> 0]

InitMB(k, m, d) ==
  InitObjects(k, [i \in BarIds |-> Bar(m[i], d[i], TickMs)])

\* The bars the main goroutine registers before the others start: the
\* i-th has a defined max when i is odd and an undefined one when i is even.
InitMax(i) == IF i % 2 = 1 THEN 2 ELSE Undefined

InitDesc(i) == IF i = 1 THEN DescWide ELSE DescA

\* New(), then the main goroutine has registered k bars one after another
\* and not yet painted; the other goroutines start from here.
Init ==
  /\ \E k \in 0..InitBars :
       InitMB(k, [i \in BarIds |-> InitMax(i)], [i \in BarIds |-> InitDesc(i)])
  /\ th = [t \in Threads |-> Idle("none")]
  /\ budget = [total |-> MaxCalls, each |-> MaxCalls]

\* ----------------------------------------------------------------- time

\* The wall clock advances by d milliseconds, at most MaxTicks times.
TickBy(d) ==
  /\ panicked = NoPanic
  /\ now < TickMs + d * MaxTicks
  /\ now' = now + d
  /\ UNCHANGED <<calls, budget, mbVars, bar, nalloc, th, lines, ups, panicked>>

Tick == TickBy(TickMs)

\* ------------------------------------------------------- line rendering

Pad2(n) == IF n >= 0 /\ n < 10 THEN "0" \o NatStr(n) ELSE IntStr(n)

\* formatDuration of a duration given in milliseconds
FormatDuration(ms) ==
  LET totalSeconds == GoDiv(ms, 1000)
      hours == GoDiv(totalSeconds, 3600)
      minutes == GoDiv(GoMod(totalSeconds, 3600), 60)
      seconds == GoMod(totalSeconds, 60)
  IN  IntStr(hours) \o ":" \o Pad2(minutes) \o ":" \o Pad2(seconds)

\* The elapsed duration Bar.render shows, read at time `at`
Elapsed(s, at) ==
  IF s.finished
  THEN IF s.updatedAt # ZeroTime THEN s.updatedAt - s.startedAt
       ELSE at - s.startedAt
  ELSE at - s.startedAt

\* The spinner column with the cases of its switch in the other order
SpinnerColorFinishedFirst(isError, finished) ==
  IF finished THEN "green" ELSE IF isError THEN "red" ELSE "none"

\* Bar.render: the colour of the spinner column,
\* `switch { case isError: red; case finished: green; default: none }`
SpinnerColor(isError, finished) ==
  IF isError THEN "red" ELSE IF finished THEN "green" ELSE "none"

\* Bar.render after its locked snapshot s: the line it formats at time `at`.
\* Field `of` is the snapshot the line was formatted from.
RenderLine(s, at) ==
  LET isError == s.max # Undefined /\ s.value > s.max
      description == LabelOf(s.description)
      pad0 == s.maxLabelLength - RuneCountInString(description)
  IN  [written |-> TRUE,
       of |-> [value |-> s.value, max |-> s.max,
               description |-> s.description, finished |-> s.finished],
       percent |-> PercentStr(s.value, s.max, s.finished, s.unitBits),
       elapsed |-> FormatDuration(Elapsed(s, at)),
       bar |-> BuildProgressBar(s.value, s.max, BarWidth, s.finished, isError,
                                s.unitBits),
       spinner |-> IF s.finished THEN -1 ELSE s.spinner,
       spinnerColor |-> SpinnerColor(isError, s.finished),
       label |-> description,
       pad |-> IF pad0 < 0 THEN 0 ELSE pad0]

\* The panic that formatting line l ends in, NoPanic when it ends in none
PanicOf(l) ==
  IF l.percent = "panic" \/ l.bar.kind = "divide" THEN "divide"
  ELSE IF l.bar.kind = "repeat" THEN "repeat"
  ELSE NoPanic

\* ------------------------------------------------------------ Bar calls

\* A goroutine holds a handle of bar b once the NewBar64 call returned it.
Handle(b) ==
  /\ b \in 1..nalloc
  /\ \A u \in Threads : ~(th[u].op = "NewBar64" /\ th[u].b = b)

Goto(t, pc) == th' = [th EXCEPT ![t].pc = pc]

\* b.value += n
AddValue(loaded, n) == loaded + n

\* The auto-finish test without its guard on the sentinel
AutoFinishedNoSentinel(value, maxVal) == value = maxVal

\* b.finished = b.value == b.max && b.max != Undefined
AutoFinished(value, maxVal) == value = maxVal /\ maxVal # Undefined

\* Add: b.mu.Lock() and the load of b.value
Add(t, b, n) ==
  /\ CanCall(t) /\ Handle(b) /\ CanLock(b)
  /\ calls' = [calls EXCEPT ![t] = @ + 1]
  /\ UNCHANGED budget
  /\ bar' = [bar EXCEPT ![b].mu = t]
  /\ th' = [th EXCEPT ![t] = [Enter(t, "Add", b, "a_store") EXCEPT
                                !.arg = n, !.tmp = bar[b].value]]
  /\ UNCHANGED <<mbVars, nalloc, now, lines, ups, panicked>>

\* Add: the stores, b.mu.Unlock(), then on to b.mb.render()
AddUnlock(t) ==
  /\ At(t, "a_store")
  /\ LET b == th[t].b
         v == AddValue(th[t].tmp, th[t].arg)
     IN  bar' = [bar EXCEPT ![b].value = v,
                            ![b].finished = AutoFinished(v, bar[b].max),
                            ![b].updatedAt = now,
                            ![b].mu = NoThread]
  /\ Goto(t, "r_now")
  /\ UNCHANGED <<calls, budget, mbVars, nalloc, now, lines, ups, panicked>>

SetValue(t, b, v) ==
  /\ CanCall(t) /\ Handle(b) /\ CanLock(b)
  /\ calls' = [calls EXCEPT ![t] = @ + 1]
  /\ UNCHANGED budget
  /\ bar' = [bar EXCEPT ![b].mu = t]
  /\ th' = [th EXCEPT ![t] = [Enter(t, "SetValue", b, "sv_store") EXCEPT !.arg = v]]
  /\ UNCHANGED <<mbVars, nalloc, now, lines, ups, panicked>>

SetValueUnlock(t) ==
  /\ At(t, "sv_store")
  /\ bar' = [bar EXCEPT ![th[t].b].value = th[t].arg,
                         ![th[t].b].updatedAt = now,
                         ![th[t].b].mu = NoThread]
  /\ Goto(t, "r_now")
  /\ UNCHANGED <<calls, budget, mbVars, nalloc, now, lines, ups, panicked>>

SetMax(t, b, m) ==
  /\ CanCall(t) /\ Handle(b) /\ CanLock(b)
  /\ calls' = [calls EXCEPT ![t] = @ + 1]
  /\ UNCHANGED budget
  /\ bar' = [bar EXCEPT ![b].mu = t]
  /\ th' = [th EXCEPT ![t] = [Enter(t, "SetMax", b, "sm_store") EXCEPT !.arg = m]]
  /\ UNCHANGED <<mbVars, nalloc, now, lines, ups, panicked>>

SetMaxUnlock(t) ==
  /\ At(t, "sm_store")
  /\ bar' = [bar EXCEPT ![th[t].b].max = th[t].arg,
                         ![th[t].b].mu = NoThread]
  /\ Goto(t, "r_now")
  /\ UNCHANGED <<calls, budget, mbVars, nalloc, now, lines, ups, panicked>>

Reset(t, b) ==
  /\ CanCall(t) /\ Handle(b) /\ CanLock(b)
  /\ calls' = [calls EXCEPT ![t] = @ + 1]
  /\ UNCHANGED budget
  /\ bar' = [bar EXCEPT ![b].mu = t]
  /\ th' = [th EXCEPT ![t] = Enter(t, "Reset", b, "rs_store")]
  /\ UNCHANGED <<mbVars, nalloc, now, lines, ups, panicked>>

\* A Reset that also clears the finished flag
ResetUnlockClearsFinished(t) ==
  /\ At(t, "rs_store")
  /\ bar' = [bar EXCEPT ![th[t].b].value = 0,
                         ![th[t].b].startedAt = now,
                         ![th[t].b].updatedAt = now,
                         ![th[t].b].finished = FALSE,
                         ![th[t].b].mu = NoThread]
  /\ Goto(t, "r_now")
  /\ UNCHANGED <<calls, budget, mbVars, nalloc, now, lines, ups, panicked>>

ResetUnlock(t) ==
  /\ At(t, "rs_store")
  /\ bar' = [bar EXCEPT ![th[t].b].value = 0,
                         ![th[t].b].startedAt = now,
                         ![th[t].b].updatedAt = now,
                         ![th[t].b].mu = NoThread]
  /\ Goto(t, "r_now")
  /\ UNCHANGED <<calls, budget, mbVars, nalloc, now, lines, ups, panicked>>

SetDescription(t, b, d) ==
  /\ CanCall(t) /\ Handle(b) /\ CanLock(b)
  /\ calls' = [calls EXCEPT ![t] = @ + 1]
  /\ UNCHANGED budget
  /\ bar' = [bar EXCEPT ![b].mu = t]
  /\ th' = [th EXCEPT ![t] = [Enter(t, "SetDescription", b, "sd_store") EXCEPT
                                !.darg = d]]
  /\ UNCHANGED <<mbVars, nalloc, now, lines, ups, panicked>>

\* the store, b.mu.Unlock(), then on to b.mb.updateMaxLabelLength()
SetDescriptionUnlock(t) ==
  /\ At(t, "sd_store")
  /\ bar' = [bar EXCEPT ![th[t].b].description = th[t].darg,
                         ![th[t].b].mu = NoThread]
  /\ Goto(t, "u_reset")
  /\ UNCHANGED <<calls, budget, mbVars, nalloc, now, lines, ups, panicked>>

\* Finish without its early return
FinishNeverReturnsEarly(finished) == FALSE

\* Finish: `if b.finished { b.mu.Unlock(); return }`
FinishReturnsEarly(finished) == finished

\* Where a goroutine goes when Finish or the render it calls returns: the
\* loop of FinishAll moves to the next bar of its range, any other call
\* returns to its caller.
AfterCall(t, ret) ==
  IF th[t].op = "FinishAll" /\ th[t].ai < Len(th[t].all)
  THEN [Idle("none") EXCEPT !.pc = "fa_lock", !.op = "FinishAll",
                            !.all = th[t].all, !.ai = th[t].ai + 1]
  ELSE Idle(ret)

Finish(t, b) ==
  /\ CanCall(t) /\ Handle(b) /\ CanLock(b)
  /\ calls' = [calls EXCEPT ![t] = @ + 1]
  /\ UNCHANGED budget
  /\ bar' = [bar EXCEPT ![b].mu = t]
  /\ th' = [th EXCEPT ![t] = Enter(t, "Finish", b, "f_store")]
  /\ UNCHANGED <<mbVars, nalloc, now, lines, ups, panicked>>

FinishUnlock(t) ==
  /\ At(t, "f_store")
  /\ LET b == th[t].b
     IN  IF FinishReturnsEarly(bar[b].finished)
         THEN /\ bar' = [bar EXCEPT ![b].mu = NoThread]
              /\ th' = [th EXCEPT ![t] = AfterCall(t, "noop")]
         ELSE /\ bar' = [bar EXCEPT ![b].updatedAt = now,
                                    ![b].finished = TRUE,
                                    ![b].mu = NoThread]
              /\ Goto(t, "r_now")
  /\ UNCHANGED <<calls, budget, mbVars, nalloc, now, lines, ups, panicked>>

\* ------------------------------------------------------ MultiBar calls

\* NewBar64: constructs the Bar and reads m.bars for the append
NewBar64(t, maxValue, description) ==
  /\ CanCall(t)
  /\ calls' = [calls EXCEPT ![t] = @ + 1]
  /\ UNCHANGED budget
  /\ nalloc < MaxBars
  /\ nalloc' = nalloc + 1
  /\ bar' = [bar EXCEPT ![nalloc + 1] = Bar(maxValue, description, now)]
  /\ \E r \in ReadBars(t) :
       /\ th' = [th EXCEPT ![t] =
                   [Enter(t, "NewBar64", nalloc + 1, "n_store") EXCEPT
                      !.rng = r.v]]
       /\ panicked' = IF r.ok THEN panicked ELSE "fault"
  /\ UNCHANGED <<mbVars, now, lines, ups>>

\* NewBar64: m.bars = append(<the slice read>, b)
NewBarStore(t) ==
  /\ At(t, "n_store")
  /\ bars' = Append(th[t].rng, th[t].b)
  /\ th' = [th EXCEPT ![t].pc = "u_reset", ![t].rng = << >>]
  /\ UNCHANGED <<calls, budget, spinnerIndex, lastRender, maxLabelLength, renderedLines, bar,
                 nalloc, now, lines, ups, panicked>>

\* Where a goroutine goes when updateMaxLabelLength returns: NewBar64
\* returns to its caller, SetDescription goes on to render.
AfterUpdate(t) ==
  IF th[t].op = "NewBar64" THEN Idle("none")
  ELSE [th[t] EXCEPT !.pc = "r_now", !.rng = << >>, !.idx = 0, !.tmp = 0,
                      !.snap = NoSnap]

\* The loop of updateMaxLabelLength moves to the next bar of its range.
NextLabel(t) ==
  IF th[t].idx >= Len(th[t].rng) THEN AfterUpdate(t)
  ELSE [th[t] EXCEPT !.pc = "u_lock", !.idx = @ + 1, !.tmp = 0, !.snap = NoSnap]

\* An updateMaxLabelLength that does not start from zero
UpdateResetKeeps(t) ==
  /\ At(t, "u_reset")
  /\ Goto(t, "u_range")
  /\ UNCHANGED <<calls, budget, mbVars, bar, nalloc, now, lines, ups, panicked>>

\* updateMaxLabelLength: m.maxLabelLength = 0
UpdateReset(t) ==
  /\ At(t, "u_reset")
  /\ maxLabelLength' = 0
  /\ Goto(t, "u_range")
  /\ UNCHANGED <<calls, budget, bars, spinnerIndex, lastRender, renderedLines, bar, nalloc,
                 now, lines, ups, panicked>>

\* updateMaxLabelLength: `range m.bars` reads the slice once
UpdateRange(t) ==
  /\ At(t, "u_range")
  /\ \E r \in ReadBars(t) :
       IF r.ok
       THEN /\ th' = [th EXCEPT ![t] =
                        IF r.v = << >> THEN AfterUpdate(t)
                        ELSE [th[t] EXCEPT !.pc = "u_lock", !.rng = r.v, !.idx = 1]]
            /\ UNCHANGED panicked
       ELSE /\ panicked' = "fault"
            /\ UNCHANGED th
  /\ UNCHANGED <<calls, budget, mbVars, bar, nalloc, now, lines, ups>>

\* Bar.label: b.mu.Lock(); d := b.description
LabelLock(t) ==
  /\ At(t, "u_lock")
  /\ LET b == th[t].rng[th[t].idx]
     IN  /\ CanLock(b)
         /\ bar' = [bar EXCEPT ![b].mu = t]
         /\ th' = [th EXCEPT ![t].pc = "u_unlock",
                             ![t].snap = [NoSnap EXCEPT
                                            !.description = bar[b].description]]
  /\ UNCHANGED <<calls, budget, mbVars, nalloc, now, lines, ups, panicked>>

\* Bar.label: b.mu.Unlock() and the placeholder; then the rune count
LabelUnlock(t) ==
  /\ At(t, "u_unlock")
  /\ bar' = [bar EXCEPT ![th[t].rng[th[t].idx]].mu = NoThread]
  /\ th' = [th EXCEPT ![t].pc = "u_cmp",
                      ![t].tmp = LabelLengthOf(th[t].snap.description),
                      ![t].snap = NoSnap]
  /\ UNCHANGED <<calls, budget, mbVars, nalloc, now, lines, ups, panicked>>

\* updateMaxLabelLength: `if labelLength > m.maxLabelLength`
UpdateCompare(t) ==
  /\ At(t, "u_cmp")
  /\ th' = [th EXCEPT ![t] =
              IF th[t].tmp > maxLabelLength THEN [th[t] EXCEPT !.pc = "u_set"]
              ELSE NextLabel(t)]
  /\ UNCHANGED <<calls, budget, mbVars, bar, nalloc, now, lines, ups, panicked>>

\* updateMaxLabelLength: m.maxLabelLength = labelLength
UpdateSet(t) ==
  /\ At(t, "u_set")
  /\ maxLabelLength' = th[t].tmp
  /\ th' = [th EXCEPT ![t] = NextLabel(t)]
  /\ UNCHANGED <<calls, budget, bars, spinnerIndex, lastRender, renderedLines, bar, nalloc,
                 now, lines, ups, panicked>>

Start(t) ==
  /\ CanCall(t)
  /\ calls' = [calls EXCEPT ![t] = @ + 1]
  /\ UNCHANGED budget
  /\ th' = [th EXCEPT ![t] = Enter(t, "Start", NoBar, "r_now")]
  /\ UNCHANGED <<mbVars, bar, nalloc, now, lines, ups, panicked>>

\* FinishAll: `range m.bars` reads the slice once
FinishAll(t) ==
  /\ CanCall(t)
  /\ calls' = [calls EXCEPT ![t] = @ + 1]
  /\ UNCHANGED budget
  /\ \E r \in ReadBars(t) :
       /\ th' = [th EXCEPT ![t] =
                   IF r.v = << >> THEN Idle("none")
                   ELSE [Enter(t, "FinishAll", NoBar, "fa_lock") EXCEPT
                           !.all = r.v, !.ai = 1]]
       /\ panicked' = IF r.ok THEN panicked ELSE "fault"
  /\ UNCHANGED <<mbVars, bar, nalloc, now, lines, ups>>

\* FinishAll: bar.Finish() on the next bar of the range, up to b.mu.Lock()
FinishAllLock(t) ==
  /\ At(t, "fa_lock")
  /\ LET b == th[t].all[th[t].ai]
     IN  /\ CanLock(b)
         /\ bar' = [bar EXCEPT ![b].mu = t]
         /\ th' = [th EXCEPT ![t].b = b, ![t].pc = "f_store"]
  /\ UNCHANGED <<calls, budget, mbVars, nalloc, now, lines, ups, panicked>>

\* render: now := time.Now() and the test on m.lastRender
SpinnerDue(last, at) == last = ZeroTime \/ at - last >= SpinnerRenderInterval

RenderNow(t) ==
  /\ At(t, "r_now")
  /\ th' = [th EXCEPT ![t].tnow = now,
                      ![t].due = SpinnerDue(lastRender, now),
                      ![t].pc = IF SpinnerDue(lastRender, now) THEN "r_spin"
                                ELSE "r_up"]
  /\ UNCHANGED <<calls, budget, mbVars, bar, nalloc, now, lines, ups, panicked>>

\* render: m.spinnerIndex = (m.spinnerIndex + 1) % len(spinners)
RenderSpin(t) ==
  /\ At(t, "r_spin")
  /\ spinnerIndex' = (spinnerIndex + 1) % NumSpinners
  /\ Goto(t, "r_last")
  /\ UNCHANGED <<calls, budget, bars, lastRender, maxLabelLength, renderedLines, bar, nalloc,
                 now, lines, ups, panicked>>

\* render: m.lastRender = now
RenderLast(t) ==
  /\ At(t, "r_last")
  /\ lastRender' = th[t].tnow
  /\ Goto(t, "r_up")
  /\ UNCHANGED <<calls, budget, bars, spinnerIndex, maxLabelLength, renderedLines, bar, nalloc,
                 now, lines, ups, panicked>>

\* render: the cursor-up sequence, when m.renderedLines > 0
RenderUp(t) ==
  /\ At(t, "r_up")
  /\ IF renderedLines > 0
     THEN /\ ups' = renderedLines
          /\ th' = [th EXCEPT ![t].pc = "r_range", ![t].w = @ + 1]
     ELSE /\ UNCHANGED ups
          /\ Goto(t, "r_range")
  /\ UNCHANGED <<calls, budget, mbVars, bar, nalloc, now, lines, panicked>>

\* render: `range m.bars` reads the slice once
RenderRange(t) ==
  /\ At(t, "r_range")
  /\ \E r \in ReadBars(t) :
       IF r.ok
       THEN /\ th' = [th EXCEPT ![t].rng = r.v,
                                ![t].idx = IF r.v = << >> THEN 0 ELSE 1,
                                ![t].pc = IF r.v = << >> THEN "r_done"
                                          ELSE "r_lock"]
            /\ UNCHANGED panicked
       ELSE /\ panicked' = "fault"
            /\ UNCHANGED th
  /\ UNCHANGED <<calls, budget, mbVars, bar, nalloc, now, lines, ups>>

\* Bar.render: the arguments spinners[m.spinnerIndex] and m.maxLabelLength,
\* b.mu.Lock() and the copy of the fields
RenderLock(t) ==
  /\ At(t, "r_lock")
  /\ LET b == th[t].rng[th[t].idx]
     IN  /\ CanLock(b)
         /\ bar' = [bar EXCEPT ![b].mu = t]
         /\ th' = [th EXCEPT ![t].pc = "r_unlock",
                             ![t].snap =
                               [value |-> bar[b].value, max |-> bar[b].max,
                                description |-> bar[b].description,
                                finished |-> bar[b].finished,
                                startedAt |-> bar[b].startedAt,
                                updatedAt |-> bar[b].updatedAt,
                                spinner |-> spinnerIndex,
                                maxLabelLength |-> maxLabelLength,
                                unitBits |-> bar[b].unitBits]]
  /\ UNCHANGED <<calls, budget, mbVars, nalloc, now, lines, ups, panicked>>

\* Bar.render: b.mu.Unlock()
RenderUnlock(t) ==
  /\ At(t, "r_unlock")
  /\ bar' = [bar EXCEPT ![th[t].rng[th[t].idx]].mu = NoThread]
  /\ Goto(t, "r_write")
  /\ UNCHANGED <<calls, budget, mbVars, nalloc, now, lines, ups, panicked>>

\* Bar.render formats the line and writes it; render writes the newline
RenderWrite(t) ==
  /\ At(t, "r_write")
  /\ LET b == th[t].rng[th[t].idx]
         l == RenderLine(th[t].snap, now)
     IN  IF PanicOf(l) # NoPanic
         THEN /\ panicked' = PanicOf(l)
              /\ UNCHANGED <<lines, th>>
         ELSE /\ lines' = [lines EXCEPT ![b] = l]
              /\ th' = [th EXCEPT ![t].w = @ + 1,
                                  ![t].snap = NoSnap,
                                  ![t].idx = IF @ >= Len(th[t].rng) THEN @ ELSE @ + 1,
                                  ![t].pc = IF th[t].idx >= Len(th[t].rng)
                                            THEN "r_done" ELSE "r_lock"]
              /\ UNCHANGED panicked
  /\ UNCHANGED <<calls, budget, mbVars, bar, nalloc, now, ups>>

\* render: m.renderedLines = len(m.bars); the call returns
RenderDone(t) ==
  /\ At(t, "r_done")
  /\ renderedLines' = Len(bars)
  /\ th' = [th EXCEPT ![t] = AfterCall(t, "none")]
  /\ UNCHANGED <<calls, budget, bars, spinnerIndex, lastRender, maxLabelLength, bar, nalloc,
                 now, lines, ups, panicked>>

\* -------------------------------------------------------- specification

Next ==
  \/ Tick
  \/ \E t \in Threads, m \in NewMaxes, d \in NewDescs : NewBar64(t, m, d)
  \/ \E t \in Threads : NewBarStore(t)
  \/ \E t \in Threads : Start(t)
  \/ \E t \in Threads, b \in BarIds, n \in AddArgs : Add(t, b, n)
  \/ \E t \in Threads : AddUnlock(t)
  \/ \E t \in Threads, b \in BarIds, v \in ValueArgs : SetValue(t, b, v)
  \/ \E t \in Threads : SetValueUnlock(t)
  \/ \E t \in Threads, b \in BarIds, m \in MaxArgs : SetMax(t, b, m)
  \/ \E t \in Threads : SetMaxUnlock(t)
  \/ \E t \in Threads, b \in BarIds : Reset(t, b)
  \/ \E t \in Threads : ResetUnlock(t)
  \/ \E t \in Threads, b \in BarIds, d \in Descs : SetDescription(t, b, d)
  \/ \E t \in Threads : SetDescriptionUnlock(t)
  \/ \E t \in Threads, b \in BarIds : Finish(t, b)
  \/ \E t \in Threads : FinishUnlock(t)
  \/ \E t \in Threads : FinishAll(t)
  \/ \E t \in Threads : FinishAllLock(t)
  \/ \E t \in Threads : UpdateReset(t)
  \/ \E t \in Threads : UpdateRange(t)
  \/ \E t \in Threads : LabelLock(t)
  \/ \E t \in Threads : LabelUnlock(t)
  \/ \E t \in Threads : UpdateCompare(t)
  \/ \E t \in Threads : UpdateSet(t)
  \/ \E t \in Threads : RenderNow(t)
  \/ \E t \in Threads : RenderSpin(t)
  \/ \E t \in Threads : RenderLast(t)
  \/ \E t \in Threads : RenderUp(t)
  \/ \E t \in Threads : RenderRange(t)
  \/ \E t \in Threads : RenderLock(t)
  \/ \E t \in Threads : RenderUnlock(t)
  \/ \E t \in Threads : RenderWrite(t)
  \/ \E t \in Threads : RenderDone(t)

Spec == Init /\ [][Next]_vars

\* The steps inside render and updateMaxLabelLength, whoever called them
Paint(t) ==
  \/ RenderNow(t)
  \/ RenderSpin(t)
  \/ RenderLast(t)
  \/ RenderUp(t)
  \/ RenderRange(t)
  \/ RenderLock(t)
  \/ RenderUnlock(t)
  \/ RenderWrite(t)
  \/ RenderDone(t)

\* ---------------------------------------------- the Add(1) workload (C1)

\* One bar with max = Cardinality(Threads) * AddsPerThread; every goroutine issues
\* AddsPerThread calls Add(1) to it.
InitAdd ==
  /\ InitMB(1, [i \in BarIds |-> Cardinality(Threads) * AddsPerThread],
            [i \in BarIds |-> DescA])
  /\ th = [t \in Threads |-> Idle("none")]
  /\ budget = [total |-> Cardinality(Threads) * AddsPerThread, each |-> AddsPerThread]

NextAdd ==
  \/ Tick
  \/ \E t \in Threads : Add(t, 1, 1)
  \/ \E t \in Threads : AddUnlock(t)
  \/ \E t \in Threads : Paint(t)

SpecAdd == InitAdd /\ [][NextAdd]_vars

AllAddsReturned ==
  \A t \in Threads : th[t].pc = "idle" /\ calls[t] = AddsPerThread

\* C1: no lost updates.  When every goroutine has returned from its
\* AddsPerThread calls Add(1) on the bar created with
\* max = Cardinality(Threads) * AddsPerThread, the bar's value is exactly that product,
\* whatever the interleaving was.
C1_NoLostUpdates ==
  AllAddsReturned => bar[1].value = Cardinality(Threads) * AddsPerThread

C1_Witness ==
  AllAddsReturned /\ bar[1].value = Cardinality(Threads) * AddsPerThread /\ bar[1].finished

\* ------------------------------------------------- paint serialization

\* Goroutine t is in the middle of a paint: it has written to the sink and
\* has more to write.
MidPaint(t) ==
  /\ th[t].w > 0
  /\ th[t].pc \in {"r_range", "r_lock", "r_unlock", "r_write"}

\* C2: paint serialization.  A paint (the cursor-up sequence and the lines
\* that follow it) is a critical section: no goroutine writes to the sink
\* while another goroutine is in the middle of its paint, so two goroutines
\* are never both in the middle of a paint.
C2_PaintsNeverInterleave ==
  \A t, u \in Threads : t # u => ~(MidPaint(t) /\ MidPaint(u))

\* ---------------------------------------------------------- auto-finish

\* The step of goroutine t that ends the locked section of its Add
AddReturnsFromLock(t) == th[t].pc = "a_store" /\ th'[t].pc = "r_now"

\* The line goroutine t is about to write, in the paint its own Add
\* triggered, for the bar it added to, from a snapshot with value == max.
PaintsOwnAddAtMax(t) ==
  /\ th[t].op = "Add"
  /\ th[t].pc = "r_write"
  /\ th[t].rng[th[t].idx] = th[t].b
  /\ th[t].snap.max # Undefined
  /\ th[t].snap.value = th[t].snap.max
  /\ th[t].snap.finished

C3_FinishedAfterAdd ==
  \A t \in Threads :
    AddReturnsFromLock(t) =>
      LET b == th[t].b
      IN  (bar'[b].max # Undefined /\ bar'[b].value = bar'[b].max)
            => bar'[b].finished

C3_Shows100 ==
  \A t \in Threads :
    PaintsOwnAddAtMax(t) =>
      LET l == RenderLine(th[t].snap, now)
      IN  PanicOf(l) = NoPanic /\ l.percent = "100%"

\* C3: auto-finish on equality.  For a bar whose max is defined, an Add that
\* leaves value == max leaves finished true, and the repaint that follows it
\* writes the bar's line with the percent field "100%".
C3_AutoFinishOnEquality == [][C3_FinishedAfterAdd]_vars /\ []C3_Shows100

\* ------------------------------------------------- the undefined bar (C4)

\* One bar with max Undefined; the goroutines only call Add on it.
InitUndefined ==
  /\ InitMB(1, [i \in BarIds |-> Undefined], [i \in BarIds |-> DescA])
  /\ th = [t \in Threads |-> Idle("none")]
  /\ budget = [total |-> MaxCalls, each |-> MaxCalls]

NextUndefined ==
  \/ Tick
  \/ \E t \in Threads, n \in AddArgs : Add(t, 1, n)
  \/ \E t \in Threads : AddUnlock(t)
  \/ \E t \in Threads : Paint(t)

SpecUndefined == InitUndefined /\ [][NextUndefined]_vars

\* C4: a bar whose max is Undefined never auto-finishes.  Whatever Add calls
\* the goroutines make on it, and no Finish, finished is false in every
\* reachable state.
C4_UndefinedNeverFinishes ==
  \A b \in 1..nalloc : bar[b].max = Undefined => ~bar[b].finished

C4_Witness ==
  /\ \A t \in Threads : th[t].pc = "idle"
  /\ TotalCalls = MaxCalls
  /\ bar[1].max = Undefined
  /\ bar[1].value = -1
  /\ ~bar[1].finished

\* ------------------------------------------------------- finished flag

\* C5: the finished flag is monotonic.  Once finished is true for a bar it
\* is true after every later step of Add, SetValue, SetMax, SetDescription,
\* Reset and Finish.
C5_FinishedMonotonic ==
  [][\A b \in BarIds : bar[b].finished => bar'[b].finished]_vars

\* -------------------------------------------------- Finish twice (C6)

\* One bar, max defined or not; the goroutines call Finish and Add on it.
InitFinish ==
  /\ \E m \in {2, Undefined} :
       InitMB(1, [i \in BarIds |-> m], [i \in BarIds |-> DescA])
  /\ th = [t \in Threads |-> Idle("none")]
  /\ budget = [total |-> MaxCalls, each |-> MaxCalls]

NextFinish ==
  \/ Tick
  \/ \E t \in Threads : Finish(t, 1)
  \/ \E t \in Threads : FinishUnlock(t)
  \/ \E t \in Threads, n \in AddArgs : Add(t, 1, n)
  \/ \E t \in Threads : AddUnlock(t)
  \/ \E t \in Threads : Paint(t)

SpecFinish == InitFinish /\ [][NextFinish]_vars

\* The fields of a Bar, its mutex aside
Fields(o) ==
  [value |-> o.value, max |-> o.max, description |-> o.description,
   startedAt |-> o.startedAt, updatedAt |-> o.updatedAt,
   finished |-> o.finished]

\* A step of goroutine t inside its call Finish on a bar that is finished:
\* taking the lock, or the test and the return.
FinishStepOnFinished(t) ==
  /\ th'[t] # th[t]
  /\ \/ th'[t].pc = "f_store" /\ bar[th'[t].b].finished
     \/ th[t].pc = "f_store" /\ bar[th[t].b].finished

\* C6: Finish is idempotent.  A call Finish on a bar that is finished
\* changes no field of the bar (updatedAt stays), writes nothing to the
\* sink, touches no field of the coordinator, and returns without painting.
C6_FinishIdempotent ==
  [][\A t \in Threads :
       FinishStepOnFinished(t) =>
         /\ \A b \in BarIds : Fields(bar'[b]) = Fields(bar[b])
         /\ lines' = lines /\ ups' = ups
         /\ mbVars' = mbVars
         /\ th'[t].pc \in {"f_store", "idle"}]_vars

C6_Witness ==
  \E t \in Threads :
    /\ th[t].pc = "idle" /\ th[t].ret = "noop"
    /\ bar[1].finished
    /\ bar[1].updatedAt # ZeroTime /\ bar[1].updatedAt < now

\* ---------------------------------------------------------- label width

NoLabelCallInProgress ==
  \A t \in Threads : th[t].op \notin {"NewBar64", "SetDescription"}

\* C7: label-width agreement.  Whenever no NewBar or SetDescription call is
\* in progress, maxLabelLength is the greatest code-point length of the
\* labels of the registered bars, an empty description counting as
\* "Working".
C7_LabelWidthAgrees ==
  NoLabelCallInProgress =>
    maxLabelLength = MaxLabelOver(bars, [b \in BarIds |-> bar[b].description])

\* ------------------------------------------------------------- failures

\* C8: no operation fails.  No call and no repaint ends in a division by
\* zero or in a negative repeat count, whatever the integer arguments.
C8_NoFailure == panicked \notin {"divide", "repeat"}

\* ----------------------------------------------------- registration order

AppendOnly ==
  \A i \in 1..Len(bars) : i <= Len(bars') /\ bars'[i] = bars[i]

\* Every bar a NewBar call has returned is registered.
CreatedAreRegistered == \A b \in BarIds : Handle(b) => b \in Registered

\* A paint that is through has written one line per bar of the collection it
\* ranged over, in the order of creation.
PaintInOrder ==
  \A t \in Threads :
    th[t].pc = "r_done" =>
      \A i, j \in 1..Len(th[t].rng) : i < j => th[t].rng[i] < th[t].rng[j]

\* C9: lines appear in registration order.  The collection of bars only
\* grows at its end, every bar NewBar returned is in it, and a paint writes
\* one line per registered bar in the order of creation, without a fault
\* when NewBar runs at the same time.
C9_RegistrationOrder ==
  /\ [][AppendOnly]_vars
  /\ [](CreatedAreRegistered /\ PaintInOrder /\ panicked # "fault")

\* ----------------------------------------------------- the final repaint

Quiescent == \A t \in Threads : th[t].pc = "idle"

Shown(o) ==
  [value |-> o.value, max |-> o.max, description |-> o.description,
   finished |-> o.finished]

\* C10: the final repaint reflects the latest state.  Once every goroutine
\* has returned from its calls, the line last written for each registered
\* bar was formatted from that bar's current value, max, description and
\* finished flag.
C10_FinalPaintIsLatest ==
  (Quiescent /\ panicked = NoPanic) =>
    \A b \in Registered : lines[b].written => lines[b].of = Shown(bar[b])

\* ------------------------------------------------ elapsed of a finished bar

\* One bar; the goroutines call Finish, SetValue and Reset on it while the
\* clock advances by whole seconds.  No call of this workload clears the
\* finished flag.
InitElapsed ==
  /\ \E m \in {2, Undefined} :
       InitMB(1, [i \in BarIds |-> m], [i \in BarIds |-> DescA])
  /\ th = [t \in Threads |-> Idle("none")]
  /\ budget = [total |-> MaxCalls, each |-> MaxCalls]

NextElapsed ==
  \/ TickBy(SecondMs)
  \/ \E t \in Threads : Finish(t, 1)
  \/ \E t \in Threads : FinishUnlock(t)
  \/ \E t \in Threads, v \in ValueArgs : SetValue(t, 1, v)
  \/ \E t \in Threads : SetValueUnlock(t)
  \/ \E t \in Threads : Reset(t, 1)
  \/ \E t \in Threads : ResetUnlock(t)
  \/ \E t \in Threads : Paint(t)

SpecElapsed == InitElapsed /\ [][NextElapsed]_vars

\* The line of bar b is written again, both lines showing the bar finished.
RepaintsFinished(b) ==
  /\ lines[b].written /\ lines[b].of.finished
  /\ lines'[b] # lines[b]
  /\ lines'[b].of.finished

\* C11: elapsed freezes when the bar is finished.  Once a line showed the
\* bar finished, every later repaint of the bar shows the same elapsed
\* duration, whatever calls were made in between and however much time
\* passed.
C11_ElapsedFreezes ==
  [][\A b \in BarIds :
       RepaintsFinished(b) => lines'[b].elapsed = lines[b].elapsed]_vars

\* ------------------------------------------------- the formatted line

\* One bar in a state that NewBar64(m), SetValue(v) and, for a finished bar,
\* Finish() leave it in, and one Start call that paints it.  value and max
\* are v and m units of 2^u: for u = BigUnitBits they are int64 values of
\* the order of 2^57, up to 2^63 when the bounds are raised.
InitFormat ==
  /\ \E m \in 1..MaxFormatMax, u \in {0, BigUnitBits}, f \in BOOLEAN :
       \E v \in 0..(m + 1) :
         InitObjects(1, [i \in BarIds |->
                           [Bar(m, DescA, TickMs) EXCEPT
                              !.value = v, !.updatedAt = TickMs,
                              !.finished = f, !.unitBits = u]])
  /\ th = [t \in Threads |-> Idle("none")]
  /\ budget = [total |-> 1, each |-> 1]

NextFormat ==
  \/ Tick
  \/ \E t \in Threads : Start(t)
  \/ \E t \in Threads : Paint(t)

SpecFormat == InitFormat /\ [][NextFormat]_vars

\* The line written for bar b shows it unfinished, with a value in [0, max]
\* and max > 0.
ShowsInRange(b) ==
  /\ lines[b].written
  /\ ~lines[b].of.finished
  /\ lines[b].of.max > 0
  /\ lines[b].of.value >= 0 /\ lines[b].of.value <= lines[b].of.max

\* C12: percentage range.  For max > 0 and 0 <= value <= max the percent
\* field written for an unfinished bar is "%3d%%" of the integer p with
\* p * max <= value * 100 < (p + 1) * max, and p lies in [0, 100].
C12_PercentInRange ==
  \A b \in BarIds :
    ShowsInRange(b) =>
      \E p \in 0..100 :
        /\ lines[b].percent = FormatPercent(p)
        /\ p * lines[b].of.max <= lines[b].of.value * 100
        /\ lines[b].of.value * 100 < (p + 1) * lines[b].of.max

\* ------------------------------------------------------- the fill bar

\* The eighths of a cell that the cells c of a bar show filled
DrawnUnits(c) == c.full * 8 + c.part

\* The cells Bar.render draws for an unfinished bar of bar b's max and unit
\* whose value is w
CellsAt(b, w) ==
  BuildProgressBar(w, lines[b].of.max, BarWidth, FALSE, w > lines[b].of.max,
                   bar[b].unitBits)

\* The line written for bar b shows it unfinished, with max > 0 and a value
\* that is not negative.
ShowsFill(b) ==
  /\ lines[b].written
  /\ ~lines[b].of.finished
  /\ lines[b].of.max > 0
  /\ lines[b].of.value >= 0

\* C13: fill-bar monotonicity.  For max > 0 the filled part drawn for an
\* unfinished bar is floor(value * 240 / max) eighths of a cell for value in
\* [0, max], it is not smaller than the part drawn for any smaller value, it
\* is exactly 240 eighths when value >= max, and never more than 30 cells
\* are full.
C13_FillMonotone ==
  \A b \in BarIds :
    ShowsFill(b) =>
      LET v == lines[b].of.value
          m == lines[b].of.max
          d == DrawnUnits(lines[b].bar)
      IN  /\ lines[b].bar.full <= BarWidth
          /\ v >= m => d = BarWidth * 8
          /\ v <= m => d * m <= v * BarWidth * 8 /\ v * BarWidth * 8 < (d + 1) * m
          /\ \A w \in 0..v :
               CellsAt(b, w).kind = "fill" /\ DrawnUnits(CellsAt(b, w)) <= d

\* ------------------------------------------------------------ overshoot

\* One bar of max 1 or Undefined; the goroutines call Add and Finish on it.
InitOvershoot ==
  /\ \E m \in {1, Undefined} :
       InitMB(1, [i \in BarIds |-> m], [i \in BarIds |-> DescA])
  /\ th = [t \in Threads |-> Idle("none")]
  /\ budget = [total |-> MaxCalls, each |-> MaxCalls]

NextOvershoot ==
  \/ Tick
  \/ \E t \in Threads, n \in AddArgs : Add(t, 1, n)
  \/ \E t \in Threads : AddUnlock(t)
  \/ \E t \in Threads : Finish(t, 1)
  \/ \E t \in Threads : FinishUnlock(t)
  \/ \E t \in Threads : Paint(t)

SpecOvershoot == InitOvershoot /\ [][NextOvershoot]_vars

\* An Add on an unfinished bar of defined max that takes value above max
\* leaves the bar unfinished.
OvershootLeavesUnfinished ==
  \A t \in Threads :
    AddReturnsFromLock(t) =>
      LET b == th[t].b
      IN  (~bar[b].finished /\ bar[b].max # Undefined
             /\ bar'[b].value > bar[b].max)
            => ~bar'[b].finished

\* A written line has the red accent exactly when it shows a defined max
\* and a value above it; the cells of an unfinished bar are red in exactly
\* that case too.
ErrorStateShown ==
  \A b \in BarIds :
    lines[b].written =>
      LET over == lines[b].of.max # Undefined
                    /\ lines[b].of.value > lines[b].of.max
      IN  /\ lines[b].spinnerColor = "red" <=> over
          /\ ~lines[b].of.finished => (lines[b].bar.color = "red" <=> over)

\* C14: overshoot is an error state, not a finish.  An Add that takes the
\* value of an unfinished bar of defined max above max leaves finished
\* false, and a line is written in the error state (red accent) exactly when
\* max is defined and value > max, whether the bar is finished or not.
C14_OvershootIsError == [][OvershootLeavesUnfinished]_vars /\ []ErrorStateShown

C14_Witness ==
  /\ lines[1].written
  /\ lines[1].of.max = 1 /\ lines[1].of.value = 2
  /\ lines[1].of.finished
  /\ lines[1].spinnerColor = "red"

\* -------------------------------------------------------------- throttle

\* Goroutine t writes to the sink in a repaint that is not the first and
\* that began less than the interval after lastRender.
WritesWithinInterval(t) ==
  /\ th[t].pc \in {"r_up", "r_write"}
  /\ ~th[t].due
  /\ th'[t].w > th[t].w

\* C15: repaint throttling.  A repaint request that is not the first and
\* arrives less than the minimum interval after lastRender writes nothing to
\* the sink.
C15_Throttled == [][\A t \in Threads : ~WritesWithinInterval(t)]_vars

\* ---------------------------------------------------- in-place overwrite

\* The paint of goroutine t ends: renderedLines is the number of lines this
\* paint wrote.
EndsWithOwnCount(t) ==
  (th[t].pc = "r_done" /\ th'[t].pc # "r_done")
    => renderedLines' = Len(th[t].rng)

\* Goroutine t writes the first line of its paint without having moved the
\* cursor up: no line has been written before.
NoCursorUpOnlyFirst(t) ==
  (th[t].pc = "r_write" /\ th[t].w = 0 /\ th'[t].w > 0)
    => \A b \in BarIds : ~lines[b].written

\* The cursor moves up by the number of lines of the paint before.
MovesUpByCount(t) ==
  (th[t].pc = "r_up" /\ th'[t].w > th[t].w) => ups' = renderedLines

\* C16: in-place overwrite.  Only the first paint emits no cursor-up; a
\* later paint first moves the cursor up by the number of lines of the paint
\* before it, and every paint ends with renderedLines equal to the number of
\* lines it wrote itself, also when NewBar or other repaints run at the same
\* time.
C16_InPlaceOverwrite ==
  [][\A t \in Threads :
       /\ EndsWithOwnCount(t)
       /\ NoCursorUpOnlyFirst(t)
       /\ MovesUpByCount(t)]_vars

\* ------------------------------------------------------------ data races

\* The fields of MultiBar that the next step of a goroutine at pc writes
WritesAt(pc) ==
  CASE pc = "n_store" -> {"bars"}
    [] pc \in {"u_reset", "u_set"} -> {"maxLabelLength"}
    [] pc = "r_spin" -> {"spinnerIndex"}
    [] pc = "r_last" -> {"lastRender"}
    [] pc = "r_done" -> {"renderedLines"}
    [] OTHER -> {}

\* The fields of MultiBar that the next step of a goroutine at pc reads
ReadsAt(pc) ==
  CASE pc \in {"u_range", "r_range", "r_done"} -> {"bars"}
    [] pc = "u_cmp" -> {"maxLabelLength"}
    [] pc = "r_now" -> {"lastRender"}
    [] pc = "r_spin" -> {"spinnerIndex"}
    [] pc = "r_up" -> {"renderedLines"}
    [] pc = "r_lock" -> {"spinnerIndex", "maxLabelLength"}
    [] OTHER -> {}

\* The next steps of goroutines t and u access the same field of MultiBar,
\* t's step writes it, and nothing orders the two steps.
Races(t, u) ==
  WritesAt(th[t].pc) \cap (WritesAt(th[u].pc) \cup ReadsAt(th[u].pc)) # {}

\* C17: the shared layout state is race-free.  No two goroutines are ever
\* about to access maxLabelLength, spinnerIndex, renderedLines, lastRender
\* or bars at the same time, one of them writing.
C17_RaceFree ==
  \A t, u \in Threads : t # u => ~Races(t, u)

\* ------------------------------------------------- frames of the setters

\* One bar of max 2; the goroutines call SetValue, SetMax, SetDescription,
\* Reset and Finish on it.
InitSetters ==
  /\ InitMB(1, [i \in BarIds |-> 2], [i \in BarIds |-> DescA])
  /\ th = [t \in Threads |-> Idle("none")]
  /\ budget = [total |-> MaxCalls, each |-> MaxCalls]

NextSetters ==
  \/ Tick
  \/ \E t \in Threads, v \in ValueArgs : SetValue(t, 1, v)
  \/ \E t \in Threads : SetValueUnlock(t)
  \/ \E t \in Threads, m \in MaxArgs : SetMax(t, 1, m)
  \/ \E t \in Threads : SetMaxUnlock(t)
  \/ \E t \in Threads, d \in Descs : SetDescription(t, 1, d)
  \/ \E t \in Threads : SetDescriptionUnlock(t)
  \/ \E t \in Threads : Reset(t, 1)
  \/ \E t \in Threads : ResetUnlock(t)
  \/ \E t \in Threads : Finish(t, 1)
  \/ \E t \in Threads : FinishUnlock(t)
  \/ \E t \in Threads : UpdateReset(t)
  \/ \E t \in Threads : UpdateRange(t)
  \/ \E t \in Threads : LabelLock(t)
  \/ \E t \in Threads : LabelUnlock(t)
  \/ \E t \in Threads : UpdateCompare(t)
  \/ \E t \in Threads : UpdateSet(t)
  \/ \E t \in Threads : Paint(t)

SpecSetters == InitSetters /\ [][NextSetters]_vars

\* Goroutine t takes a step inside a call of SetValue, SetMax,
\* SetDescription or Reset.
SetterStep(t) ==
  /\ th'[t] # th[t]
  /\ \/ th[t].op \in {"SetValue", "SetMax", "SetDescription", "Reset"}
     \/ th'[t].op \in {"SetValue", "SetMax", "SetDescription", "Reset"}

\* The step of goroutine t that ends the locked section entered at pc
Stores(t, pc) == th[t].pc = pc /\ th'[t].pc # pc

FrameOfReset(t) ==
  Stores(t, "rs_store") =>
    LET b == th[t].b
    IN  /\ bar'[b].description = bar[b].description
        /\ bar'[b].max = bar[b].max
        /\ bar'[b].value = 0
        /\ bar'[b].startedAt = now /\ bar'[b].updatedAt = bar'[b].startedAt

FrameOfSetMax(t) ==
  Stores(t, "sm_store") =>
    LET b == th[t].b
    IN  /\ bar'[b].value = bar[b].value
        /\ bar'[b].startedAt = bar[b].startedAt
        /\ bar'[b].updatedAt = bar[b].updatedAt

\* C18: only Add and Finish change finished.  No step of a SetValue, SetMax,
\* SetDescription or Reset call changes the finished flag of any bar; Reset
\* sets value = 0 and startedAt = updatedAt = now and leaves description and
\* max alone; SetMax leaves value and both timestamps alone.
C18_SettersKeepFinished ==
  [][\A t \in Threads :
       /\ SetterStep(t) =>
            \A b \in BarIds : bar'[b].finished = bar[b].finished
       /\ FrameOfReset(t)
       /\ FrameOfSetMax(t)]_vars

C18_Witness ==
  /\ \A t \in Threads : th[t].pc = "idle"
  /\ bar[1].finished
  /\ bar[1].value = 0
  /\ bar[1].startedAt > TickMs /\ bar[1].updatedAt = bar[1].startedAt

\* ------------------------------------------------- relabelling one bar

\* One bar created with the two-rune description.  Goroutine 1 calls
\* SetDescription on it, one call after the other; the other goroutines call
\* Add, so that repaints run at the same time but no two recomputations of
\* the label width overlap.
InitRelabel ==
  /\ InitMB(1, [i \in BarIds |-> 2], [i \in BarIds |-> DescWide])
  /\ th = [t \in Threads |-> Idle("none")]
  /\ budget = [total |-> MaxCalls + 1, each |-> MaxCalls]

NextRelabel ==
  \/ Tick
  \/ \E d \in Descs : SetDescription(1, 1, d)
  \/ \E t \in Threads : SetDescriptionUnlock(t)
  \/ \E t \in Threads \ {1} : Add(t, 1, 0)
  \/ \E t \in Threads : AddUnlock(t)
  \/ \E t \in Threads : UpdateReset(t)
  \/ \E t \in Threads : UpdateRange(t)
  \/ \E t \in Threads : LabelLock(t)
  \/ \E t \in Threads : LabelUnlock(t)
  \/ \E t \in Threads : UpdateCompare(t)
  \/ \E t \in Threads : UpdateSet(t)
  \/ \E t \in Threads : Paint(t)

SpecRelabel == InitRelabel /\ [][NextRelabel]_vars

\* The label width of the bars as they are registered and described now
WidthOfLabels ==
  MaxLabelOver(bars, [b \in BarIds |-> bar[b].description])

\* The step with which the updateMaxLabelLength of goroutine t's
\* SetDescription call returns
RelabelReturns(t) ==
  /\ th[t].op = "SetDescription"
  /\ th[t].pc \in {"u_range", "u_cmp", "u_set"}
  /\ th'[t].pc = "r_now"

\* C19 as the code has it: SetDescription recomputes the label width from
\* zero.  When no other NewBar or SetDescription call overlaps it, the call
\* leaves maxLabelLength equal to the greatest label length of the
\* registered bars, which is less than before when the longest label was
\* replaced by a shorter one.
C19_RelabelRecomputes ==
  [][\A t \in Threads : RelabelReturns(t) => maxLabelLength' = WidthOfLabels']_vars

C19_Witness ==
  /\ \A t \in Threads : th[t].pc = "idle"
  /\ bar[1].description = DescA
  /\ maxLabelLength = 1

\* C19: the label width never shrinks.  Whenever no SetDescription call is
\* in progress, maxLabelLength is at least what it was when the bar was
\* created with its two-rune description.
C19_NeverShrinks ==
  NoLabelCallInProgress => maxLabelLength >= LabelLengthOf(DescWide)

\* ------------------------------------------------------- spinner cadence

\* The spinner advances by one step, and only in a repaint that is the
\* first or comes at least the interval after the last advance.
AdvancesOnlyWhenDue ==
  spinnerIndex' # spinnerIndex =>
    /\ spinnerIndex' = (spinnerIndex + 1) % NumSpinners
    /\ SpinnerDue(lastRender, now)

\* C20: spinner cadence.  spinnerIndex is always in [0, 10); it advances by
\* exactly one step modulo 10, and only when no advance was made before or
\* at least 100 ms have passed since the last advance, however many repaints
\* occur.
C20_SpinnerCadence ==
  /\ [](spinnerIndex \in 0..(NumSpinners - 1))
  /\ [][AdvancesOnlyWhenDue]_vars

\* --------------------------------------------- mutations always complete

\* MaxBars bars of max 2; every goroutine calls one of Add, SetValue, SetMax,
\* SetDescription, Reset and Finish on one of them.
InitMutations ==
  /\ InitMB(MaxBars, [i \in BarIds |-> 2], [i \in BarIds |-> InitDesc(i)])
  /\ th = [t \in Threads |-> Idle("none")]
  /\ budget = [total |-> MaxCalls, each |-> 1]

\* Goroutine t is scheduled and executes the next step of its call.
Proceed(t) ==
  \/ AddUnlock(t)
  \/ SetValueUnlock(t)
  \/ SetMaxUnlock(t)
  \/ ResetUnlock(t)
  \/ SetDescriptionUnlock(t)
  \/ FinishUnlock(t)
  \/ UpdateReset(t)
  \/ UpdateRange(t)
  \/ LabelLock(t)
  \/ LabelUnlock(t)
  \/ UpdateCompare(t)
  \/ UpdateSet(t)
  \/ Paint(t)

NextMutations ==
  \/ \E t \in Threads, b \in BarIds, n \in AddArgs : Add(t, b, n)
  \/ \E t \in Threads, b \in BarIds, v \in ValueArgs : SetValue(t, b, v)
  \/ \E t \in Threads, b \in BarIds, m \in MaxArgs : SetMax(t, b, m)
  \/ \E t \in Threads, b \in BarIds, d \in NewDescs : SetDescription(t, b, d)
  \/ \E t \in Threads, b \in BarIds : Reset(t, b)
  \/ \E t \in Threads, b \in BarIds : Finish(t, b)
  \/ \E t \in Threads : Proceed(t)

\* The Go scheduler runs every goroutine that can run: a goroutine whose
\* next step stays possible takes it.
SpecMutations ==
  /\ InitMutations
  /\ [][NextMutations]_vars
  /\ \A t \in Threads : WF_vars(Proceed(t))

\* The bar locks goroutine t holds
LocksHeld(t) == {b \in BarIds : bar[b].mu = t}

\* Goroutine t is inside updateMaxLabelLength or render, outside the locked
\* sections of Bar.label and Bar.render.
InCoordinator(t) ==
  th[t].pc \in {"u_reset", "u_range", "u_lock", "u_cmp", "u_set",
                "r_now", "r_spin", "r_last", "r_up", "r_range", "r_lock",
                "r_write", "r_done"}

LockDiscipline ==
  \A t \in Threads :
    /\ Cardinality(LocksHeld(t)) <= 1
    /\ InCoordinator(t) => LocksHeld(t) = {}

InCall(t) == th[t].pc # "idle"

\* C21: mutations always complete.  No goroutine is inside
\* updateMaxLabelLength or render while it holds a bar's lock, no goroutine
\* holds more than one bar lock at a time, every bar lock that is held is
\* released, and every Add, SetValue, SetMax, SetDescription, Reset and
\* Finish call that has started eventually returns.
C21_MutationsComplete ==
  /\ [](LockDiscipline)
  /\ \A b \in BarIds : (bar[b].mu # NoThread) ~> (bar[b].mu = NoThread)
  /\ \A t \in Threads : InCall(t) ~> ~InCall(t)

====
